---- MODULE Spec2Model ----
(***************************************************************************)
(* Clearing module (katenester/Cliring): the orders table, and the netting *)
(* calculation ListMonetarySettlements in its two versions:                *)
(*   version A  Repository.ListMonetarySettlements                         *)
(*              (internal/repository/reposotory.go), reached through       *)
(*              Service.ListMonetarySettlements (internal/service) and the *)
(*              HTTP handler (internal/transport);                         *)
(*   version B  Service.ListMonetarySettlements with the calculation       *)
(*              inline (the newer service file).                           *)
(* Amounts are NUMERIC(15,2) in the database; the model counts them in     *)
(* whole units, so float64 rounding is outside the model.                  *)
(*                                                                         *)
(* Five specifications share the variables:                                *)
(*   Spec        one request at a time over the orders of one deal, both   *)
(*               versions, every pagination;                               *)
(*   SpecEngine  the same with one page that holds every settlement;       *)
(*   SpecNet     two netting requests in flight over two deals while       *)
(*               orders are written;                                       *)
(*   SpecStore   deals, orders and stored settlements created and deleted  *)
(*               (DeleteDeal) beside a netting request;                    *)
(*   SpecOrders  orders written by CreateOrders and UpdateOrder, and the   *)
(*               calculation over them.                                    *)
(***************************************************************************)
EXTENDS Integers, Sequences, FiniteSets, TLC

(***************************************************************************)
(* Bounds of the model.                                                    *)
(***************************************************************************)
MaxOrders == 2
MaxAmount == 2
\* rows of monetary_settlements
MaxSettlements == 1

DealIDs == {1}
\* goroutines serving requests at the same time
Workers == {1, 2}
BankIDs == {1, 2}
Amounts == 1 .. MaxAmount
\* request parameters tried: 0 is the rejected value, the rest are accepted
RequestDealIDs == {0} \cup DealIDs
Pages == 0 .. 2
Limits == 0 .. 3
\* deal_id is validated before page and limit, so a rejected deal_id is tried
\* with one accepted and one rejected pagination only
RequestsA ==
    {[dealID |-> 0, page |-> p, limit |-> p] : p \in {0, 1}}
    \cup {[dealID |-> d, page |-> p, limit |-> l] : d \in DealIDs, p \in Pages, l \in Limits}

(***************************************************************************)
(* order_type_id values dispatched on by the calculation.                  *)
(***************************************************************************)
Purchase == 1
Credit == 2
TradeIn == 3
KnownTypes == {Purchase, Credit, TradeIn}
\* a row of order_types beyond the three the calculation knows
UnknownTypes == {TradeIn + 1}
OrderTypeIDs == KnownTypes \cup UnknownTypes

StatusPending == "pending"
StatusExecuted == "executed"
StatusCancelled == "cancelled"
Statuses == {StatusPending, StatusExecuted, StatusCancelled}

(***************************************************************************)
(* Go values.  A *int is <<>> (nil) or <<v>>.  An error is nil or a chain, *)
(* outermost wrapper first; errors.New values are told apart by the        *)
(* package that declares them, as Go tells them apart by identity.         *)
(***************************************************************************)
nil == <<>>
Ptr(v) == <<v>>

ErrorsNew(pkg, text) == [pkg |-> pkg, text |-> text, arg |-> 0]
RepoErrInvalidInput == ErrorsNew("repository", "invalid input")
RepoErrNotFound == ErrorsNew("repository", "resource not found")
SvcErrInvalidInput == ErrorsNew("service", "invalid input")
SvcErrNotFound == ErrorsNew("service", "resource not found")
SvcErrUnauthorized == ErrorsNew("service", "unauthorized access")
\* a driver error returned by Conn.Query
DbError == ErrorsNew("pgx", "query failed")

\* fmt.Errorf("<text> <arg>: %w", err)
Errorf(text, arg, err) == <<[pkg |-> "fmt", text |-> text, arg |-> arg]>> \o err

\* the error Repository.ListOrdersByDeals returns when Conn.Query fails
QueryError == Errorf("failed to query orders", 0, <<DbError>>)

\* errors.Is(err, target)
ErrorsIs(err, target) == \E k \in 1 .. Len(err) : err[k] = target

(***************************************************************************)
(* The database.                                                           *)
(***************************************************************************)
VARIABLES
    orders,     \* table orders, rows in created_at order (oldest first)
    pc,         \* "idle", or "responded" while a response is being returned
    call,       \* the request in progress: its arguments, locals and results
    deals,      \* table deals: the deal_id values present
    monetarySettlements,    \* table monetary_settlements, rows in insertion order
    workers     \* requests served concurrently, one goroutine each

vars == <<orders, pc, call, deals, monetarySettlements, workers>>

RECURSIVE Reverse(_)
Reverse(s) == IF s = <<>> THEN <<>> ELSE Reverse(Tail(s)) \o <<Head(s)>>

\* mutant: cancelled orders are left out of the result
ListOrdersByDeals_NotCancelled(table, dealID) ==
    LET InDeal(o) == o.DealID = dealID /\ o.Status # StatusCancelled
    IN  Reverse(SelectSeq(table, InDeal))

\* mutant: the WHERE clause is missing
ListOrdersByDeals_AllDeals(table, dealID) == Reverse(table)

\* SELECT ... FROM orders WHERE deal_id = $1 ORDER BY created_at DESC
ListOrdersByDeals(table, dealID) ==
    LET InDeal(o) == o.DealID = dealID
    IN  Reverse(SelectSeq(table, InDeal))

(***************************************************************************)
(* The netting calculation.                                                *)
(***************************************************************************)
\* mutant: only the first order is looked at
HasBank_FirstOnly(os) == Len(os) > 0 /\ os[1].BankID # nil

\* mutant: only Credit orders are looked at for a bank_id
HasBank_CreditOnly(os) ==
    \E k \in 1 .. Len(os) : os[k].OrderTypeID = Credit /\ os[k].BankID # nil

\* Check if any order has a bank_id
HasBank(os) == \E k \in 1 .. Len(os) : os[k].BankID # nil

\* mutant: the Bank is never added to the participants
Participants_NoBank(hasBank) == <<"Client", "Rolf">>

Participants(hasBank) ==
    IF hasBank THEN <<"Client", "Rolf", "Bank">> ELSE <<"Client", "Rolf">>

\* mutant: the matrix is kept between calls and not cleared
ZeroMatrix_Shared(n) ==
    LET Left(w) == /\ workers[w].step = "responded"
                   /\ workers[w].frame.stage = "done"
                   /\ workers[w].frame.n = n
    IN  IF \E w \in Workers : Left(w)
        THEN workers[CHOOSE w \in Workers : Left(w)].frame.obligations
        ELSE [i \in 0 .. n - 1 |-> [j \in 0 .. n - 1 |-> 0]]

\* make([][]float64, n), indexed from 0 as in the source
ZeroMatrix(n) == [i \in 0 .. n - 1 |-> [j \in 0 .. n - 1 |-> 0]]

\* mutant: the amount is subtracted from the cell
Post_Subtract(acc, n, i, j, amount) ==
    IF acc.panic THEN acc
    ELSE IF i < n /\ j < n
         THEN [acc EXCEPT !.obligations[i][j] = @ - amount]
         ELSE [acc EXCEPT !.panic = TRUE]

\* obligations[i][j] += amount; an index outside the matrix panics
Post(acc, n, i, j, amount) ==
    IF acc.panic THEN acc
    ELSE IF i < n /\ j < n
         THEN [acc EXCEPT !.obligations[i][j] = @ + amount]
         ELSE [acc EXCEPT !.panic = TRUE]

\* mutant: Credit with a bank posts the Client -> Bank leg only
SwitchA_OneLeg(acc, n, order) ==
    CASE order.OrderTypeID = Purchase -> Post(acc, n, 0, 1, order.Amount)
      [] order.OrderTypeID = Credit ->
            IF order.BankID # nil
            THEN Post(acc, n, 0, 2, order.Amount)
            ELSE Post(acc, n, 0, 1, order.Amount)
      [] order.OrderTypeID = TradeIn -> Post(acc, n, 1, 0, order.Amount)
      [] OTHER ->
            [acc EXCEPT !.err = Errorf("unknown order_type_id", order.OrderTypeID,
                                       <<RepoErrInvalidInput>>)]

\* mutant: an unknown order type is skipped instead of rejected
SwitchA_SkipUnknown(acc, n, order) ==
    CASE order.OrderTypeID = Purchase -> Post(acc, n, 0, 1, order.Amount)
      [] order.OrderTypeID = Credit ->
            IF order.BankID # nil
            THEN Post(Post(acc, n, 0, 2, order.Amount), n, 2, 1, order.Amount)
            ELSE Post(acc, n, 0, 1, order.Amount)
      [] order.OrderTypeID = TradeIn -> Post(acc, n, 1, 0, order.Amount)
      [] OTHER -> acc

\* mutant: Trade-in is posted like a Purchase
SwitchA_TradeInAsPurchase(acc, n, order) ==
    CASE order.OrderTypeID = Purchase -> Post(acc, n, 0, 1, order.Amount)
      [] order.OrderTypeID = Credit ->
            IF order.BankID # nil
            THEN Post(Post(acc, n, 0, 2, order.Amount), n, 2, 1, order.Amount)
            ELSE Post(acc, n, 0, 1, order.Amount)
      [] order.OrderTypeID = TradeIn -> Post(acc, n, 0, 1, order.Amount)
      [] OTHER ->
            [acc EXCEPT !.err = Errorf("unknown order_type_id", order.OrderTypeID,
                                       <<RepoErrInvalidInput>>)]

\* mutant: Credit without a bank_id posts nothing
SwitchA_CreditNoFallback(acc, n, order) ==
    CASE order.OrderTypeID = Purchase -> Post(acc, n, 0, 1, order.Amount)
      [] order.OrderTypeID = Credit ->
            IF order.BankID # nil
            THEN Post(Post(acc, n, 0, 2, order.Amount), n, 2, 1, order.Amount)
            ELSE acc
      [] order.OrderTypeID = TradeIn -> Post(acc, n, 1, 0, order.Amount)
      [] OTHER ->
            [acc EXCEPT !.err = Errorf("unknown order_type_id", order.OrderTypeID,
                                       <<RepoErrInvalidInput>>)]

\* the switch on order.OrderTypeID, version A
SwitchA(acc, n, order) ==
    CASE order.OrderTypeID = Purchase -> Post(acc, n, 0, 1, order.Amount)
      [] order.OrderTypeID = Credit ->
            IF order.BankID # nil
            THEN Post(Post(acc, n, 0, 2, order.Amount), n, 2, 1, order.Amount)
            ELSE Post(acc, n, 0, 1, order.Amount)
      [] order.OrderTypeID = TradeIn -> Post(acc, n, 1, 0, order.Amount)
      [] OTHER ->
            [acc EXCEPT !.err = Errorf("unknown order_type_id", order.OrderTypeID,
                                       <<RepoErrInvalidInput>>)]

\* mutant: Purchase is posted Rolf -> Client
SwitchB_PurchaseReversed(acc, n, order) ==
    CASE order.OrderTypeID = Purchase -> Post(acc, n, 1, 0, order.Amount)
      [] order.OrderTypeID = Credit ->
            IF order.BankID # nil
            THEN Post(acc, n, 2, 0, order.Amount)
            ELSE acc
      [] order.OrderTypeID = TradeIn -> Post(acc, n, 1, 0, order.Amount)
      [] OTHER ->
            [acc EXCEPT !.err = Errorf("unknown order_type_id", order.OrderTypeID,
                                       <<SvcErrInvalidInput>>)]

\* mutant: Credit posts Bank -> Client without looking at the bank_id
SwitchB_CreditNoBankCheck(acc, n, order) ==
    CASE order.OrderTypeID = Purchase -> Post(acc, n, 0, 1, order.Amount)
      [] order.OrderTypeID = Credit -> Post(acc, n, 2, 0, order.Amount)
      [] order.OrderTypeID = TradeIn -> Post(acc, n, 1, 0, order.Amount)
      [] OTHER ->
            [acc EXCEPT !.err = Errorf("unknown order_type_id", order.OrderTypeID,
                                       <<SvcErrInvalidInput>>)]

\* mutant: Credit with a bank_id posts the two legs of version A
SwitchB_CreditTwoLegs(acc, n, order) ==
    CASE order.OrderTypeID = Purchase -> Post(acc, n, 0, 1, order.Amount)
      [] order.OrderTypeID = Credit ->
            IF order.BankID # nil
            THEN Post(Post(acc, n, 0, 2, order.Amount), n, 2, 1, order.Amount)
            ELSE acc
      [] order.OrderTypeID = TradeIn -> Post(acc, n, 1, 0, order.Amount)
      [] OTHER ->
            [acc EXCEPT !.err = Errorf("unknown order_type_id", order.OrderTypeID,
                                       <<SvcErrInvalidInput>>)]

\* the switch on order.OrderTypeID, version B
SwitchB(acc, n, order) ==
    CASE order.OrderTypeID = Purchase -> Post(acc, n, 0, 1, order.Amount)
      [] order.OrderTypeID = Credit ->
            IF order.BankID # nil
            THEN Post(acc, n, 2, 0, order.Amount)
            ELSE acc
      [] order.OrderTypeID = TradeIn -> Post(acc, n, 1, 0, order.Amount)
      [] OTHER ->
            [acc EXCEPT !.err = Errorf("unknown order_type_id", order.OrderTypeID,
                                       <<SvcErrInvalidInput>>)]

\* for _, order := range orders { switch ... }, leaving at the first error
RECURSIVE BuildObligations(_, _, _, _, _)
BuildObligations(ver, acc, n, os, k) ==
    IF k > Len(os) \/ acc.err # nil \/ acc.panic THEN acc
    ELSE BuildObligations(ver,
                          IF ver = "A" THEN SwitchA(acc, n, os[k])
                                       ELSE SwitchB(acc, n, os[k]),
                          n, os, k + 1)

RECURSIVE NetRow_OutgoingOnly(_, _, _, _)
\* mutant: the incoming obligations are not subtracted
NetRow_OutgoingOnly(obligations, n, i, j) ==
    IF j >= n THEN 0
    ELSE (IF i # j THEN obligations[i][j] ELSE 0)
         + NetRow_OutgoingOnly(obligations, n, i, j + 1)

RECURSIVE NetRow_Reversed(_, _, _, _)
\* mutant: incoming minus outgoing
NetRow_Reversed(obligations, n, i, j) ==
    IF j >= n THEN 0
    ELSE (IF i # j THEN obligations[j][i] - obligations[i][j] ELSE 0)
         + NetRow_Reversed(obligations, n, i, j + 1)

RECURSIVE NetRow(_, _, _, _)
\* the inner loop over j for participant i
NetRow(obligations, n, i, j) ==
    IF j >= n THEN 0
    ELSE (IF i # j THEN obligations[i][j] - obligations[j][i] ELSE 0)
         + NetRow(obligations, n, i, j + 1)

\* net[i] = sum(a_ij) - sum(a_ji)
NetPositions(obligations, n) == [i \in 0 .. n - 1 |-> NetRow(obligations, n, i, 0)]

RECURSIVE FirstBank_Last(_, _)
\* mutant: the bank_id of the last order with a bank is taken
FirstBank_Last(os, k) ==
    IF k > Len(os) THEN nil
    ELSE LET later == FirstBank_Last(os, k + 1)
         IN  IF later # nil THEN later ELSE os[k].BankID

RECURSIVE FirstBank(_, _)
\* bank_id from first order with bank
FirstBank(os, k) ==
    IF k > Len(os) THEN nil
    ELSE IF os[k].BankID # nil THEN os[k].BankID
    ELSE FirstBank(os, k + 1)

\* mutant: every settlement of a deal with a bank gets the bank_id
NewSettlement_BankOnAll(dealID, net, hasBank, participant, os) ==
    [MonetarySettlementID |-> 0,
     DealID |-> Ptr(dealID),
     Amount |-> net,
     Status |-> StatusPending,
     BankID |-> IF hasBank THEN FirstBank(os, 1) ELSE nil]

NewSettlement(dealID, net, hasBank, participant, os) ==
    [MonetarySettlementID |-> 0,
     DealID |-> Ptr(dealID),
     Amount |-> net,
     Status |-> StatusPending,
     BankID |-> IF hasBank /\ participant = "Bank" THEN FirstBank(os, 1) ELSE nil]

RECURSIVE BuildSettlements_KeepZero(_, _, _, _, _, _)
\* mutant: a settlement is appended for a zero net position too
BuildSettlements_KeepZero(dealID, netPositions, n, hasBank, os, i) ==
    IF i >= n THEN <<>>
    ELSE <<NewSettlement(dealID, netPositions[i], hasBank,
                         Participants(hasBank)[i + 1], os)>>
         \o BuildSettlements_KeepZero(dealID, netPositions, n, hasBank, os, i + 1)

RECURSIVE BuildSettlements(_, _, _, _, _, _)
\* for i, net := range netPositions { if net != 0 { ... append } }
BuildSettlements(dealID, netPositions, n, hasBank, os, i) ==
    IF i >= n THEN <<>>
    ELSE (IF netPositions[i] # 0
          THEN <<NewSettlement(dealID, netPositions[i], hasBank,
                               Participants(hasBank)[i + 1], os)>>
          ELSE <<>>)
         \o BuildSettlements(dealID, netPositions, n, hasBank, os, i + 1)

\* mutant: the page starts one page too far
Paginate_PageOff(settlements, page, limit) ==
    LET total == Len(settlements)
        start == page * limit
        end == start + limit
    IN  IF start > total THEN <<>>
        ELSE SubSeq(settlements, start + 1, IF end > total THEN total ELSE end)

\* Apply pagination: settlements[start:end]
Paginate(settlements, page, limit) ==
    LET total == Len(settlements)
        start == (page - 1) * limit
        end == start + limit
    IN  IF start > total THEN <<>>
        ELSE SubSeq(settlements, start + 1, IF end > total THEN total ELSE end)

\* the locals of a calculation that returned before reaching them
NoFrame ==
    [fetched |-> <<>>, hasBank |-> FALSE, n |-> 0, obligations |-> <<>>,
     netPositions |-> <<>>, built |-> <<>>, settlements |-> <<>>, total |-> 0,
     fetches |-> 0, panic |-> FALSE, err |-> nil, stage |-> "validate"]

\* from the fetched orders to the settlements built, common to both versions
Calculate(ver, dealID, os) ==
    LET hasBank == HasBank(os)
        n == Len(Participants(hasBank))
        acc == BuildObligations(ver, [obligations |-> ZeroMatrix(n), err |-> nil,
                                      panic |-> FALSE], n, os, 1)
        netPositions == NetPositions(acc.obligations, n)
        base == [NoFrame EXCEPT !.fetched = os, !.hasBank = hasBank, !.n = n,
                                !.obligations = acc.obligations, !.fetches = 1]
    IN  IF acc.panic THEN [base EXCEPT !.panic = TRUE, !.stage = "matrix"]
        ELSE IF acc.err # nil THEN [base EXCEPT !.err = acc.err, !.stage = "matrix"]
        ELSE [base EXCEPT !.netPositions = netPositions,
                          !.built = BuildSettlements(dealID, netPositions, n,
                                                     hasBank, os, 0),
                          !.stage = "done"]

\* mutant: the orders are queried before the request is validated
RepoListMonetarySettlements_FetchFirst(table, dealID, page, limit, dbFails) ==
    IF dealID <= 0
    THEN [NoFrame EXCEPT !.err = Errorf("invalid deal_id", 0, <<RepoErrInvalidInput>>),
                         !.fetches = 1]
    ELSE IF page < 1 \/ limit < 1
    THEN [NoFrame EXCEPT !.err = Errorf("invalid pagination parameters", 0,
                                        <<RepoErrInvalidInput>>),
                         !.fetches = 1]
    ELSE IF dbFails
    THEN [NoFrame EXCEPT !.err = Errorf("failed to list orders", 0, QueryError),
                         !.fetches = 1, !.stage = "fetch"]
    ELSE LET f == Calculate("A", dealID, ListOrdersByDeals(table, dealID))
         IN  IF f.stage = "done"
             THEN [f EXCEPT !.settlements = Paginate(f.built, page, limit),
                            !.total = Len(f.built)]
             ELSE f

\* Repository.ListMonetarySettlements(ctx, dealID, page, limit)
RepoListMonetarySettlements(table, dealID, page, limit, dbFails) ==
    IF dealID <= 0
    THEN [NoFrame EXCEPT !.err = Errorf("invalid deal_id", 0, <<RepoErrInvalidInput>>)]
    ELSE IF page < 1 \/ limit < 1
    THEN [NoFrame EXCEPT !.err = Errorf("invalid pagination parameters", 0,
                                        <<RepoErrInvalidInput>>)]
    ELSE IF dbFails
    THEN [NoFrame EXCEPT !.err = Errorf("failed to list orders", 0, QueryError),
                         !.fetches = 1, !.stage = "fetch"]
    ELSE LET f == Calculate("A", dealID, ListOrdersByDeals(table, dealID))
         IN  IF f.stage = "done"
             THEN [f EXCEPT !.settlements = Paginate(f.built, page, limit),
                            !.total = Len(f.built)]
             ELSE f

\* mutant: a failed fetch is swallowed and an empty result returned
SvcListMonetarySettlements_SwallowFetchError(table, dealID, dbFails) ==
    IF dealID <= 0
    THEN [NoFrame EXCEPT !.err = Errorf("invalid deal_id", 0, <<SvcErrInvalidInput>>)]
    ELSE IF dbFails
    THEN [NoFrame EXCEPT !.fetches = 1, !.stage = "fetch"]
    ELSE LET f == Calculate("B", dealID, ListOrdersByDeals(table, dealID))
         IN  IF f.stage = "done"
             THEN [f EXCEPT !.settlements = f.built, !.total = Len(f.built)]
             ELSE f

\* Service.ListMonetarySettlements(ctx, dealID), calculation inline
SvcListMonetarySettlements(table, dealID, dbFails) ==
    IF dealID <= 0
    THEN [NoFrame EXCEPT !.err = Errorf("invalid deal_id", 0, <<SvcErrInvalidInput>>)]
    ELSE IF dbFails
    THEN [NoFrame EXCEPT !.err = Errorf("failed to list orders", 0, QueryError),
                         !.fetches = 1, !.stage = "fetch"]
    ELSE LET f == Calculate("B", dealID, ListOrdersByDeals(table, dealID))
         IN  IF f.stage = "done"
             THEN [f EXCEPT !.settlements = f.built, !.total = Len(f.built)]
             ELSE f

(***************************************************************************)
(* The service wrapper of version A and the HTTP error mapping.            *)
(***************************************************************************)
\* Service.ListMonetarySettlements over the repository calculation:
\* wraps the error, then checks the ownership of each settlement returned
ServiceListMonetarySettlements(repoErr, settlements, owned) ==
    IF repoErr # nil
    THEN Errorf("failed to list monetary settlements", 0, repoErr)
    ELSE IF settlements # <<>> /\ ~owned
    THEN Errorf("unauthorized access to settlement", 0, <<SvcErrUnauthorized>>)
    ELSE nil

\* Handler.handleServiceError, and the 200 response when there is no error
handleServiceError(err) ==
    IF err = nil THEN [status |-> 200, code |-> "", message |-> nil]
    ELSE IF ErrorsIs(err, SvcErrInvalidInput)
    THEN [status |-> 400, code |-> "ERR_INVALID_INPUT", message |-> err]
    ELSE IF ErrorsIs(err, SvcErrNotFound)
    THEN [status |-> 404, code |-> "ERR_NOT_FOUND", message |-> err]
    ELSE IF ErrorsIs(err, SvcErrUnauthorized)
    THEN [status |-> 401, code |-> "ERR_UNAUTHORIZED", message |-> err]
    ELSE [status |-> 500, code |-> "ERR_INTERNAL",
          message |-> <<ErrorsNew("transport", "Internal server error")>>]

\* gin.Recovery(): a panic in a handler becomes a bare 500
Recovery == [status |-> 500, code |-> "", message |-> nil]

(***************************************************************************)
(* State machine.                                                          *)
(***************************************************************************)
NoCall ==
    [ver |-> "none", dealID |-> 0, page |-> 0, limit |-> 0, frame |-> NoFrame,
     svcErr |-> nil, resp |-> handleServiceError(nil)]

\* what a worker holds between requests
IdleWorker ==
    [op |-> "none", step |-> "idle", dealID |-> 0, frame |-> NoFrame,
     err |-> nil, tx |-> "none", resp |-> handleServiceError(nil),
     dirty |-> FALSE]

Init ==
    /\ orders = <<>>
    /\ pc = "idle"
    /\ call = NoCall
    /\ deals = DealIDs
    /\ monetarySettlements = <<>>
    /\ workers = [w \in Workers |-> IdleWorker]

\* Repository.CreateOrder: INSERT INTO orders ... RETURNING ...
CreateOrder ==
    /\ pc = "idle"
    /\ Len(orders) < MaxOrders
    /\ \E d \in DealIDs, t \in OrderTypeIDs, a \in Amounts,
          b \in {nil} \cup {Ptr(x) : x \in BankIDs} :
          orders' = Append(orders,
                           [OrderID |-> Len(orders) + 1, DealID |-> d,
                            OrderTypeID |-> t, Amount |-> a,
                            Status |-> StatusPending, BankID |-> b])
    /\ UNCHANGED <<pc, call, deals, monetarySettlements, workers>>

\* GET /monetary-settlements served by version A:
\* handler -> Service.ListMonetarySettlements -> Repository.ListMonetarySettlements
ListMonetarySettlementsA(requests) ==
    /\ pc = "idle"
    /\ \E req \in requests, dbFails \in BOOLEAN :
          LET f == RepoListMonetarySettlements(orders, req.dealID, req.page,
                                               req.limit, dbFails)
          IN  \* the query is reached, and can fail, only after validation
              /\ dbFails => f.fetches > 0
              \* the ownership loop runs over the settlements returned
              /\ \E owned \in IF f.err = nil /\ f.settlements # <<>>
                               THEN BOOLEAN ELSE {TRUE} :
                    LET e == ServiceListMonetarySettlements(f.err, f.settlements, owned)
                    IN  call' = [ver |-> "A", dealID |-> req.dealID,
                                 page |-> req.page, limit |-> req.limit,
                                 frame |-> f, svcErr |-> e,
                                 resp |-> IF f.panic THEN Recovery
                                          ELSE handleServiceError(e)]
    /\ pc' = "responded"
    /\ UNCHANGED <<orders, deals, monetarySettlements, workers>>

\* GET /monetary-settlements served by version B:
\* handler -> Service.ListMonetarySettlements (calculation inline)
ListMonetarySettlementsB ==
    /\ pc = "idle"
    /\ \E dealID \in RequestDealIDs, dbFails \in BOOLEAN :
          LET f == SvcListMonetarySettlements(orders, dealID, dbFails)
          IN  /\ dbFails => f.fetches > 0
              /\ call' = [ver |-> "B", dealID |-> dealID, page |-> 0, limit |-> 0,
                       frame |-> f, svcErr |-> f.err,
                       resp |-> IF f.panic THEN Recovery ELSE handleServiceError(f.err)]
    /\ pc' = "responded"
    /\ UNCHANGED <<orders, deals, monetarySettlements, workers>>

\* the handler writes the response and returns; its locals are gone
Return ==
    /\ pc = "responded"
    /\ pc' = "idle"
    /\ call' = NoCall
    /\ UNCHANGED <<orders, deals, monetarySettlements, workers>>

Next ==
    \/ CreateOrder
    \/ ListMonetarySettlementsA(RequestsA)
    \/ ListMonetarySettlementsB
    \/ Return

Spec == Init /\ [][Next]_vars

\* the calculation alone: version A is asked for one page that holds every
\* settlement, so the tables reached are those of Spec and each is
\* calculated once per version
EngineRequests == {[dealID |-> d, page |-> 1, limit |-> 3] : d \in DealIDs}

NextEngine ==
    \/ CreateOrder
    \/ ListMonetarySettlementsA(EngineRequests)
    \/ ListMonetarySettlementsB
    \/ Return

SpecEngine == Init /\ [][NextEngine]_vars

(***************************************************************************)
(* The three tables with requests served concurrently.  Each worker is a   *)
(* goroutine of the HTTP server; a request that issues two statements      *)
(* takes two steps, and other requests can run between them.  The          *)
(* transaction of DeleteDeal takes two: up to the verification of the      *)
(* deal, and from the first DELETE to the return.                          *)
(***************************************************************************)
StoreDealIDs == {1, 2}
\* the orders written while two netting requests run: two kinds for deal 1,
\* one for deal 2
NetKinds ==
    {[DealID |-> 1, OrderTypeID |-> Purchase, BankID |-> nil],
     [DealID |-> 1, OrderTypeID |-> Credit, BankID |-> Ptr(1)],
     [DealID |-> 2, OrderTypeID |-> Purchase, BankID |-> nil]}
\* the orders written while deals are created and deleted
StoreKinds ==
    {[DealID |-> d, OrderTypeID |-> Purchase, BankID |-> nil] : d \in StoreDealIDs}
\* instants time.Now() can return
Clock == {1, 2}
\* the statements of Repository.DeleteDeal, any of which can fail
DeleteSteps == {"begin", "verify", "orders", "settlements", "deal", "commit"}
BeginSteps == {"begin", "verify"}

\* the key the next inserted row gets: the least one not in use
NextKey(keys) ==
    CHOOSE k \in 1 .. Cardinality(keys) + 1 :
        k \notin keys /\ \A l \in 1 .. k - 1 : l \in keys

\* Repository.GetDeal: nil, ErrNotFound, or the wrapped driver error
RepoGetDeal(dealsT, dealID, dbFails) ==
    IF dbFails THEN Errorf("failed to get deal", 0, <<DbError>>)
    ELSE IF dealID \notin dealsT THEN <<RepoErrNotFound>>
    ELSE nil

\* the three DELETE statements of Repository.DeleteDeal
Cascade(db, dealID) ==
    LET Other(row) == row.DealID # dealID
    IN  [deals |-> db.deals \ {dealID},
         orders |-> SelectSeq(db.orders, Other),
         settlements |-> SelectSeq(db.settlements, Other)]

\* Repository.DeleteDeal(ctx, dealID) from Begin to the verification of the
\* deal: its error, and the state of the transaction.  failAt names the
\* statement that fails.
RepoDeleteDealBegin(db, dealID, failAt) ==
    IF failAt = "begin"
    THEN [err |-> Errorf("failed to begin transaction", 0, <<DbError>>), tx |-> "none"]
    ELSE IF failAt = "verify"
    THEN [err |-> Errorf("failed to verify deal", 0, <<DbError>>), tx |-> "rolledback"]
    ELSE IF dealID \notin db.deals
    THEN [err |-> <<RepoErrNotFound>>, tx |-> "rolledback"]
    ELSE [err |-> nil, tx |-> "open"]

\* mutant: the statements run outside the transaction, so what was deleted
\* before the failing statement stays deleted
RepoDeleteDealFinish_NoRollback(db, dealID, failAt) ==
    LET Other(row) == row.DealID # dealID
        Failed(text, after) ==
            [db |-> after, err |-> Errorf(text, 0, <<DbError>>), tx |-> "rolledback"]
        noOrders == [db EXCEPT !.orders = SelectSeq(db.orders, Other)]
        noSettlements == [noOrders EXCEPT !.settlements = SelectSeq(db.settlements, Other)]
    IN  IF failAt = "orders"
        THEN Failed("failed to delete orders", db)
        ELSE IF failAt = "settlements"
        THEN Failed("failed to delete monetary settlements", noOrders)
        ELSE IF failAt = "deal"
        THEN Failed("failed to delete deal", noSettlements)
        ELSE IF dealID \notin db.deals
        THEN [db |-> db, err |-> <<RepoErrNotFound>>, tx |-> "open"]
        ELSE IF failAt = "commit"
        THEN Failed("failed to commit transaction", Cascade(db, dealID))
        ELSE [db |-> Cascade(db, dealID), err |-> nil, tx |-> "committed"]

\* Repository.DeleteDeal from the first DELETE to its return: the tables
\* after it, its error, and how the transaction was left.  The deferred
\* function rolls back when the variable err is not nil.  When the DELETE of
\* the deal affects no row, err is nil (set by that Exec) and ErrNotFound is
\* returned by value: neither Rollback nor Commit is called.
RepoDeleteDealFinish(db, dealID, failAt) ==
    LET Failed(text) ==
            [db |-> db, err |-> Errorf(text, 0, <<DbError>>), tx |-> "rolledback"]
    IN  IF failAt = "orders"
        THEN Failed("failed to delete orders")
        ELSE IF failAt = "settlements"
        THEN Failed("failed to delete monetary settlements")
        ELSE IF failAt = "deal"
        THEN Failed("failed to delete deal")
        ELSE IF dealID \notin db.deals
        THEN [db |-> db, err |-> <<RepoErrNotFound>>, tx |-> "open"]
        ELSE IF failAt = "commit"
        THEN Failed("failed to commit transaction")
        ELSE [db |-> Cascade(db, dealID), err |-> nil, tx |-> "committed"]

\* now := time.Now(), taken once per call; CreatedAt: now, UpdatedAt: now
Stamp(settlements, t) ==
    [k \in 1 .. Len(settlements) |->
        [CreatedAt |-> t, UpdatedAt |-> t] @@ settlements[k]]

\* the rows of a deal changed: a netting request that already fetched them
\* is marked (history only, the program keeps no such mark)
Touch(ws, dealID) ==
    [w \in Workers |->
        IF ws[w].op = "netting" /\ ws[w].step # "idle" /\ ws[w].dealID = dealID
        THEN [ws[w] EXCEPT !.dirty = TRUE]
        ELSE ws[w]]

InitStore ==
    /\ orders = <<>>
    /\ pc = "idle"
    /\ call = NoCall
    /\ deals = {}
    /\ monetarySettlements = <<>>
    /\ workers = [w \in Workers |-> IdleWorker]

\* Repository.CreateDeal: INSERT INTO deals (deal_id, ...) VALUES ($1, ...)
CreateDeal ==
    /\ \E d \in StoreDealIDs \ deals : deals' = deals \cup {d}
    /\ UNCHANGED <<orders, pc, call, monetarySettlements, workers>>

\* Service.CreateOrders for one order of a deal that exists
StoreCreateOrder(kinds) ==
    /\ Len(orders) < MaxOrders
    /\ \E o \in kinds :
          /\ o.DealID \in deals
          /\ orders' = Append(orders,
                              [OrderID |-> NextKey({orders[k].OrderID : k \in 1 .. Len(orders)}),
                               DealID |-> o.DealID, OrderTypeID |-> o.OrderTypeID,
                               Amount |-> 1, Status |-> StatusPending,
                               BankID |-> o.BankID])
          /\ workers' = Touch(workers, o.DealID)
    /\ UNCHANGED <<pc, call, deals, monetarySettlements>>

\* Repository.CreateMonetarySettlement: INSERT INTO monetary_settlements ...
CreateMonetarySettlement ==
    /\ Len(monetarySettlements) < MaxSettlements
    /\ \E d \in deals :
          monetarySettlements' =
              Append(monetarySettlements,
                     [MonetarySettlementID |->
                          NextKey({monetarySettlements[k].MonetarySettlementID :
                                      k \in 1 .. Len(monetarySettlements)}),
                      DealID |-> d, Amount |-> 1, Status |-> StatusPending,
                      BankID |-> nil])
    /\ UNCHANGED <<orders, pc, call, deals, workers>>

\* mutant: a netting request for a deal that is not there is answered
\* not found
NettingFetch_CheckDeal(w, dealIDs) ==
    /\ workers[w].step = "idle"
    /\ \E d \in dealIDs, dbFails \in BOOLEAN :
          LET early == SvcListMonetarySettlements(orders, d, TRUE)
              missing == Errorf("deal not found", 0, <<SvcErrNotFound>>)
              fetched == [NoFrame EXCEPT !.fetched = ListOrdersByDeals(orders, d),
                                         !.fetches = 1, !.stage = "fetched"]
          IN  workers' =
                  [workers EXCEPT ![w] =
                      IF d <= 0 \/ dbFails
                      THEN [IdleWorker EXCEPT !.op = "netting", !.step = "responded",
                                              !.dealID = d, !.frame = early,
                                              !.err = early.err,
                                              !.resp = handleServiceError(early.err)]
                      ELSE IF d \notin deals
                      THEN [IdleWorker EXCEPT !.op = "netting", !.step = "responded",
                                              !.dealID = d, !.err = missing,
                                              !.resp = handleServiceError(missing)]
                      ELSE [IdleWorker EXCEPT !.op = "netting", !.step = "fetched",
                                              !.dealID = d, !.frame = fetched]]
    /\ UNCHANGED <<orders, pc, call, deals, monetarySettlements>>

\* Service.ListMonetarySettlements up to the return of ListOrdersByDeals
NettingFetch(w, dealIDs) ==
    /\ workers[w].step = "idle"
    /\ \E d \in dealIDs, dbFails \in BOOLEAN :
          LET early == SvcListMonetarySettlements(orders, d, TRUE)
              fetched == [NoFrame EXCEPT !.fetched = ListOrdersByDeals(orders, d),
                                         !.fetches = 1, !.stage = "fetched"]
          IN  workers' =
                  [workers EXCEPT ![w] =
                      IF d <= 0 \/ dbFails
                      THEN [IdleWorker EXCEPT !.op = "netting", !.step = "responded",
                                              !.dealID = d, !.frame = early,
                                              !.err = early.err,
                                              !.resp = handleServiceError(early.err)]
                      ELSE [IdleWorker EXCEPT !.op = "netting", !.step = "fetched",
                                              !.dealID = d, !.frame = fetched]]
    /\ UNCHANGED <<orders, pc, call, deals, monetarySettlements>>

\* mutant: the settlements built are also inserted into monetary_settlements
NettingSettle_Persist(w) ==
    /\ workers[w].op = "netting" /\ workers[w].step = "fetched"
    /\ \E t \in Clock :
          LET f == Calculate("B", workers[w].dealID, workers[w].frame.fetched)
              g == IF f.stage = "done"
                   THEN [f EXCEPT !.settlements = Stamp(f.built, t),
                                  !.total = Len(f.built)]
                   ELSE f
          IN  /\ workers' =
                     [workers EXCEPT ![w].step = "responded", ![w].frame = g,
                                     ![w].err = g.err,
                                     ![w].resp = IF g.panic THEN Recovery
                                                 ELSE handleServiceError(g.err)]
              /\ monetarySettlements' =
                     IF g.built # <<>> /\ monetarySettlements = <<>>
                     THEN <<[MonetarySettlementID |-> 1, DealID |-> workers[w].dealID,
                             Amount |-> 1, Status |-> StatusPending, BankID |-> nil]>>
                     ELSE monetarySettlements
    /\ UNCHANGED <<orders, pc, call, deals>>

\* Service.ListMonetarySettlements from the fetched orders to the response
NettingSettle(w) ==
    /\ workers[w].op = "netting" /\ workers[w].step = "fetched"
    /\ \E t \in Clock :
          LET f == Calculate("B", workers[w].dealID, workers[w].frame.fetched)
              g == IF f.stage = "done"
                   THEN [f EXCEPT !.settlements = Stamp(f.built, t),
                                  !.total = Len(f.built)]
                   ELSE f
          IN  workers' =
                  [workers EXCEPT ![w].step = "responded", ![w].frame = g,
                                  ![w].err = g.err,
                                  ![w].resp = IF g.panic THEN Recovery
                                              ELSE handleServiceError(g.err)]
    /\ UNCHANGED <<orders, pc, call, deals, monetarySettlements>>

\* DELETE /deals/{deal_id}, Service.DeleteDeal up to the return of GetDeal
DeleteDealCheck(w, failures) ==
    /\ workers[w].step = "idle"
    /\ \E d \in StoreDealIDs, dbFails \in failures :
          LET e == RepoGetDeal(deals, d, dbFails)
              svcErr == IF ErrorsIs(e, RepoErrNotFound)
                        THEN Errorf("deal not found", 0, <<SvcErrNotFound>>)
                        ELSE Errorf("failed to get deal", 0, e)
          IN  workers' =
                  [workers EXCEPT ![w] =
                      IF e = nil
                      THEN [IdleWorker EXCEPT !.op = "delete", !.step = "checked",
                                              !.dealID = d]
                      ELSE [IdleWorker EXCEPT !.op = "delete", !.step = "responded",
                                              !.dealID = d, !.err = svcErr,
                                              !.resp = handleServiceError(svcErr)]]
    /\ UNCHANGED <<orders, pc, call, deals, monetarySettlements>>

\* Service.DeleteDeal from the call of Repository.DeleteDeal to the
\* verification of the deal inside the transaction
DeleteDealBegin(w, faults) ==
    /\ workers[w].op = "delete" /\ workers[w].step = "checked"
    /\ \E failAt \in faults :
          LET r == RepoDeleteDealBegin([deals |-> deals, orders |-> orders,
                                        settlements |-> monetarySettlements],
                                       workers[w].dealID, failAt)
              svcErr == Errorf("failed to delete deal", 0, r.err)
          IN  workers' =
                  [workers EXCEPT ![w] =
                      IF r.err = nil
                      THEN [@ EXCEPT !.step = "verified", !.tx = r.tx]
                      ELSE [@ EXCEPT !.step = "responded", !.err = svcErr, !.tx = r.tx,
                                     !.resp = handleServiceError(svcErr)]]
    /\ UNCHANGED <<orders, pc, call, deals, monetarySettlements>>

\* Service.DeleteDeal from the first DELETE of Repository.DeleteDeal to the
\* response
DeleteDealFinish(w, faults) ==
    /\ workers[w].op = "delete" /\ workers[w].step = "verified"
    /\ \E failAt \in faults :
          LET d == workers[w].dealID
              r == RepoDeleteDealFinish([deals |-> deals, orders |-> orders,
                                         settlements |-> monetarySettlements], d, failAt)
              svcErr == IF r.err = nil THEN nil
                        ELSE Errorf("failed to delete deal", 0, r.err)
              ws == IF r.tx = "committed" THEN Touch(workers, d) ELSE workers
          IN  \* Commit fails only when reached
              /\ failAt = "commit" => d \in deals
              /\ deals' = r.db.deals
              /\ orders' = r.db.orders
              /\ monetarySettlements' = r.db.settlements
              /\ workers' = [ws EXCEPT ![w].step = "responded", ![w].err = svcErr,
                                       ![w].tx = r.tx,
                                       ![w].resp = handleServiceError(svcErr)]
    /\ UNCHANGED <<pc, call>>

\* the handler writes the response and returns
WorkerReturn(w) ==
    /\ workers[w].step = "responded"
    /\ workers' = [workers EXCEPT ![w] = IdleWorker]
    /\ UNCHANGED <<orders, pc, call, deals, monetarySettlements>>

\* deals created and deleted with their orders and settlements.  Worker 1
\* serves netting requests and deletions in which any statement can fail;
\* worker 2 serves deletions that run beside them.
NextStore ==
    \/ CreateDeal
    \/ StoreCreateOrder(StoreKinds)
    \/ CreateMonetarySettlement
    \/ NettingFetch(1, {1})
    \/ NettingSettle(1)
    \/ DeleteDealCheck(1, BOOLEAN)
    \/ DeleteDealCheck(2, {FALSE})
    \/ DeleteDealBegin(1, {"none"} \cup BeginSteps)
    \/ DeleteDealBegin(2, {"none"})
    \/ DeleteDealFinish(1, {"none"} \cup (DeleteSteps \ BeginSteps))
    \/ DeleteDealFinish(2, {"none"})
    \/ \E w \in Workers : WorkerReturn(w)

SpecStore == InitStore /\ [][NextStore]_vars

InitNet ==
    /\ orders = <<>>
    /\ pc = "idle"
    /\ call = NoCall
    /\ deals = StoreDealIDs
    /\ monetarySettlements = <<>>
    /\ workers = [w \in Workers |-> IdleWorker]

\* two netting requests at a time, for the same deal or for different
\* deals, while orders are written
NextNet ==
    \/ StoreCreateOrder(NetKinds)
    \/ NettingFetch(1, {1})
    \/ NettingFetch(2, StoreDealIDs)
    \/ \E w \in Workers : NettingSettle(w)
    \/ \E w \in Workers : WorkerReturn(w)

SpecNet == InitNet /\ [][NextNet]_vars

(***************************************************************************)
(* Orders written through the service: CreateOrders and UpdateOrder, one   *)
(* request at a time, with the netting calculation over what they stored.  *)
(***************************************************************************)
\* client_id of the caller: 0 is the rejected value
ClientIDs == {0, 1}
\* a deal_id that passes validation and names no deal
MissingDeal == 2
\* rows of order_types.  The schema gives the table no rows and no check on
\* order_type_id: the ids in it are data, and one beyond the three the
\* calculation dispatches on is among them.
OrderTypes == OrderTypeIDs

\* domain.OrderCreate values tried: the accepted ones, and one per rejection
OrderRequests ==
    LET base == [DealID |-> 1, OrderTypeID |-> Purchase, Amount |-> 1, BankID |-> nil]
    IN  {[base EXCEPT !.OrderTypeID = t, !.BankID = b] :
            t \in OrderTypes, b \in {nil, Ptr(1)}}
        \cup {[base EXCEPT !.Amount = 0], [base EXCEPT !.DealID = 0],
              [base EXCEPT !.OrderTypeID = 0], [base EXCEPT !.BankID = Ptr(0)],
              [base EXCEPT !.DealID = MissingDeal]}

RECURSIVE SeqsUpTo(_, _)
\* the sequences over S of length at most n
SeqsUpTo(S, n) ==
    IF n = 0 THEN {<<>>}
    ELSE LET shorter == SeqsUpTo(S, n - 1)
         IN  shorter \cup {Append(q, x) : q \in {t \in shorter : Len(t) = n - 1}, x \in S}

\* the validation of one OrderCreate, the same in CreateOrders and UpdateOrder
ValidateOrder(req) ==
    IF req.Amount <= 0
    THEN Errorf("amount must be positive", 0, <<SvcErrInvalidInput>>)
    ELSE IF req.DealID <= 0
    THEN Errorf("invalid deal_id", 0, <<SvcErrInvalidInput>>)
    ELSE IF req.OrderTypeID <= 0
    THEN Errorf("invalid order_type_id", 0, <<SvcErrInvalidInput>>)
    ELSE IF req.BankID # nil /\ req.BankID[1] <= 0
    THEN Errorf("invalid bank_id", 0, <<SvcErrInvalidInput>>)
    ELSE nil

\* "Verify deal exists": GetDeal and the mapping of its error
VerifyDeal(dealsT, dealID, dbFails) ==
    LET e == RepoGetDeal(dealsT, dealID, dbFails)
    IN  IF e = nil THEN nil
        ELSE IF ErrorsIs(e, RepoErrNotFound)
        THEN Errorf("deal not found", 0, <<SvcErrNotFound>>)
        ELSE Errorf("failed to get deal", 0, e)

\* Repository.CreateOrder: the table after the INSERT, the row returned,
\* and the error
RepoCreateOrder(table, order, dbFails) ==
    LET row == [OrderID |-> NextKey({table[k].OrderID : k \in 1 .. Len(table)}),
                DealID |-> order.DealID, OrderTypeID |-> order.OrderTypeID,
                Amount |-> order.Amount, Status |-> order.Status,
                BankID |-> order.BankID]
    IN  IF dbFails \/ order.OrderTypeID \notin OrderTypes
        THEN [table |-> table, row |-> nil,
              err |-> Errorf("failed to create order", 0, <<DbError>>)]
        ELSE [table |-> Append(table, row), row |-> row, err |-> nil]

RECURSIVE CreateOrdersLoop(_, _, _, _, _)
\* the loop of Service.CreateOrders from request k on.  st holds the table,
\* createdOrders and the error; fault names the statement that fails.
CreateOrdersLoop(st, dealsT, req, k, fault) ==
    IF k > Len(req) THEN st
    ELSE LET invalid == ValidateOrder(req[k])
             noDeal == VerifyDeal(dealsT, req[k].DealID, fault = <<k, "deal">>)
             order == [DealID |-> req[k].DealID, OrderTypeID |-> req[k].OrderTypeID,
                       Amount |-> req[k].Amount, Status |-> StatusPending,
                       BankID |-> req[k].BankID]
             c == RepoCreateOrder(st.table, order, fault = <<k, "insert">>)
         IN  IF invalid # nil THEN [st EXCEPT !.created = nil, !.err = invalid]
             ELSE IF noDeal # nil THEN [st EXCEPT !.created = nil, !.err = noDeal]
             ELSE IF c.err # nil
             THEN [st EXCEPT !.created = nil,
                             !.err = Errorf("failed to create order", 0, c.err)]
             ELSE CreateOrdersLoop([st EXCEPT !.table = c.table,
                                              !.created = Append(@, c.row)],
                                   dealsT, req, k + 1, fault)

\* mutant: the batch is all or nothing, a failure undoes the orders stored
\* before it
SvcCreateOrders_Atomic(table, dealsT, clientID, req, fault) ==
    IF clientID <= 0
    THEN [table |-> table, created |-> nil,
          err |-> Errorf("invalid client_id", 0, <<SvcErrInvalidInput>>)]
    ELSE LET r == CreateOrdersLoop([table |-> table, created |-> <<>>, err |-> nil],
                                   dealsT, req, 1, fault)
         IN  IF r.err # nil THEN [r EXCEPT !.table = table] ELSE r

\* Service.CreateOrders(ctx, clientID, req)
SvcCreateOrders(table, dealsT, clientID, req, fault) ==
    IF clientID <= 0
    THEN [table |-> table, created |-> nil,
          err |-> Errorf("invalid client_id", 0, <<SvcErrInvalidInput>>)]
    ELSE CreateOrdersLoop([table |-> table, created |-> <<>>, err |-> nil],
                          dealsT, req, 1, fault)

\* Service.UpdateOrder(ctx, clientID, orderID, req): GetOrder, validation,
\* GetDeal, then the UPDATE of the row; its status stays as fetched
SvcUpdateOrder(table, dealsT, clientID, orderID, req, fault) ==
    LET at == {k \in 1 .. Len(table) : table[k].OrderID = orderID}
        k == CHOOSE i \in at : TRUE
        invalid == ValidateOrder(req)
        noDeal == VerifyDeal(dealsT, req.DealID, fault = "deal")
        row == [table[k] EXCEPT !.DealID = req.DealID,
                                !.OrderTypeID = req.OrderTypeID,
                                !.Amount = req.Amount, !.BankID = req.BankID]
        Failed(e) == [table |-> table, updated |-> nil, err |-> e]
    IN  IF clientID <= 0
        THEN Failed(Errorf("invalid client_id", 0, <<SvcErrInvalidInput>>))
        ELSE IF fault = "order"
        THEN Failed(Errorf("failed to get order", 0,
                           Errorf("failed to get order", 0, <<DbError>>)))
        ELSE IF at = {}
        THEN Failed(Errorf("order not found", 0, <<SvcErrNotFound>>))
        ELSE IF invalid # nil THEN Failed(invalid)
        ELSE IF noDeal # nil THEN Failed(noDeal)
        ELSE IF fault = "update" \/ req.OrderTypeID \notin OrderTypes
        THEN Failed(Errorf("failed to update order", 0,
                           Errorf("failed to update order", 0, <<DbError>>)))
        ELSE [table |-> [table EXCEPT ![k] = row], updated |-> <<row>>, err |-> nil]

\* the result of a service call on orders, kept until the caller returns
OrdersCall(op, clientID, req, result, err) ==
    [clientID |-> clientID, req |-> req, result |-> result]
    @@ [NoCall EXCEPT !.ver = op, !.svcErr = err]

\* POST of a batch of orders: Service.CreateOrders
CreateOrders ==
    /\ pc = "idle"
    /\ \E clientID \in ClientIDs,
          req \in SeqsUpTo(OrderRequests, MaxOrders - Len(orders)),
          fault \in {<<0, "none">>} \cup ((1 .. MaxOrders) \X {"deal", "insert"}) :
          LET r == SvcCreateOrders(orders, deals, clientID, req, fault)
          IN  /\ orders' = r.table
              /\ call' = OrdersCall("CreateOrders", clientID, req, r.created, r.err)
    /\ pc' = "responded"
    /\ UNCHANGED <<deals, monetarySettlements, workers>>

\* PUT of an order: Service.UpdateOrder
UpdateOrder ==
    /\ pc = "idle"
    /\ \E clientID \in ClientIDs, orderID \in 1 .. MaxOrders, req \in OrderRequests,
          fault \in {"none", "order", "deal", "update"} :
          LET r == SvcUpdateOrder(orders, deals, clientID, orderID, req, fault)
          IN  /\ orders' = r.table
              /\ call' = OrdersCall("UpdateOrder", clientID, <<req>>, r.updated, r.err)
    /\ pc' = "responded"
    /\ UNCHANGED <<deals, monetarySettlements, workers>>

NextOrders ==
    \/ CreateOrders
    \/ UpdateOrder
    \/ ListMonetarySettlementsA(EngineRequests)
    \/ ListMonetarySettlementsB
    \/ Return

SpecOrders == Init /\ [][NextOrders]_vars

(***************************************************************************)
(* Properties.  F is the frame of the request in progress; "emitted" is    *)
(* the list the calculation builds (F.built), "returned" what the call     *)
(* hands back (F.settlements).                                             *)
(***************************************************************************)
F == call.frame
Called == pc = "responded" /\ call.ver \in {"A", "B"}
\* the orders of the deal were fetched and the matrix loop was entered
Fetched == Called /\ F.stage \in {"matrix", "done"}
\* the calculation ran to its end
Done == Called /\ F.stage = "done"
OneOrder(t) == Len(F.fetched) = 1 /\ F.fetched[1].OrderTypeID = t
AllKnown == \A k \in 1 .. Len(F.fetched) : F.fetched[k].OrderTypeID \in KnownTypes
SomeUnknown == \E k \in 1 .. Len(F.fetched) : F.fetched[k].OrderTypeID \notin KnownTypes
AmountsOf(s) == [k \in 1 .. Len(s) |-> s[k].Amount]
OwnInvalidInput == IF call.ver = "A" THEN RepoErrInvalidInput ELSE SvcErrInvalidInput

RECURSIVE SumTo(_, _)
SumTo(net, i) == IF i < 0 THEN 0 ELSE net[i] + SumTo(net, i - 1)

C2_Original ==
    (Done /\ call.ver = "A" /\ OneOrder(Credit) /\ F.fetched[1].BankID # nil)
        => \E k \in 1 .. Len(F.built) : F.built[k].BankID = F.fetched[1].BankID

\* C2 amended: one Credit order of amount A with bank reference B under
\* version A posts exactly the two legs Client->Bank and Bank->Rolf, so
\* net[Client] = A, net[Rolf] = -A and net[Bank] = 0; two settlements are
\* emitted (Client, Rolf), none for the Bank and none carrying B.
C2_ThreeParty ==
    (Done /\ call.ver = "A" /\ OneOrder(Credit) /\ F.fetched[1].BankID # nil)
        => LET A == F.fetched[1].Amount
           IN  /\ F.n = 3
               /\ \A i, j \in 0 .. 2 :
                      F.obligations[i][j] =
                          IF <<i, j>> \in {<<0, 2>>, <<2, 1>>} THEN A ELSE 0
               /\ F.netPositions[0] = A
               /\ F.netPositions[1] = -A
               /\ F.netPositions[2] = 0
               /\ AmountsOf(F.built) = <<A, -A>>
               /\ \A k \in 1 .. Len(F.built) : F.built[k].BankID = nil

\* C2 happens: version A completed on a single Credit order with a bank.
C2_Witness ==
    /\ Done /\ call.ver = "A" /\ OneOrder(Credit) /\ F.fetched[1].BankID # nil
    /\ Len(F.built) = 2

\* C3: if any fetched order has a type outside {1, 2, 3}, at any position,
\* the calculation fails with InvalidInput and returns no settlements.
C3_UnknownTypeRejected ==
    (Fetched /\ SomeUnknown)
        => /\ F.err # nil
           /\ ErrorsIs(F.err, OwnInvalidInput)
           /\ F.stage = "matrix"
           /\ F.built = <<>> /\ F.settlements = <<>> /\ F.total = 0

\* C3 happens: a valid order precedes the offending one and the call failed.
C3_Witness ==
    /\ Fetched /\ Len(F.fetched) = 2
    /\ F.fetched[1].OrderTypeID \in KnownTypes
    /\ F.fetched[2].OrderTypeID \notin KnownTypes
    /\ F.err # nil

\* C4 as stated: an order-type violation reaches the caller as invalid
\* input (400 ERR_INVALID_INPUT) with the offending type value in the
\* message, never as an internal error.
C4_Original ==
    (Fetched /\ SomeUnknown)
        => /\ call.resp.status = 400
           /\ call.resp.code = "ERR_INVALID_INPUT"
           /\ \E k \in 1 .. Len(call.resp.message) :
                  /\ call.resp.message[k].text = "unknown order_type_id"
                  /\ call.resp.message[k].arg \notin KnownTypes

\* C5 as stated: the call returns exactly one settlement per participant
\* with a nonzero net position, in participant order.
C5_Original ==
    Done => /\ Len(F.settlements) = Cardinality({i \in 0 .. F.n - 1 : F.netPositions[i] # 0})
            /\ F.settlements = F.built

\* the k-th emitted settlement stands for the k-th participant with a
\* nonzero net position
OnePerNonzero(emitted, net, n) ==
    \E idx \in [1 .. Len(emitted) -> 0 .. n - 1] :
        /\ \A k, l \in 1 .. Len(emitted) : k < l => idx[k] < idx[l]
        /\ {idx[k] : k \in 1 .. Len(emitted)} = {i \in 0 .. n - 1 : net[i] # 0}
        /\ \A k \in 1 .. Len(emitted) : emitted[k].Amount = net[idx[k]]

\* C5 amended: the calculation builds exactly one settlement per participant
\* with a nonzero net position and none for a zero one, in participant
\* order, each with that participant's net position as amount.  Version B
\* returns this list whole; version A returns total = its length and the
\* slice [(page-1)*limit, (page-1)*limit+limit) of it, which is the whole
\* list when page = 1 and limit >= total.
C5_OutputContract ==
    Done => /\ OnePerNonzero(F.built, F.netPositions, F.n)
            /\ F.total = Len(F.built)
            /\ call.ver = "B" => F.settlements = F.built
            /\ call.ver = "A" =>
                  LET start == (call.page - 1) * call.limit
                      rest == Len(F.built) - start
                  IN  /\ Len(F.settlements) =
                             IF rest <= 0 THEN 0
                             ELSE IF rest < call.limit THEN rest ELSE call.limit
                      /\ \A k \in 1 .. Len(F.settlements) :
                             F.settlements[k] = F.built[start + k]
                      /\ (call.page = 1 /\ call.limit >= F.total)
                             => F.settlements = F.built

\* C5 happens: version A returned the second page of a two-settlement list.
C5_Witness ==
    /\ Done /\ call.ver = "A" /\ call.page = 2 /\ call.limit = 1
    /\ Len(F.built) = 2 /\ Len(F.settlements) = 1
    /\ F.settlements[1].Amount = F.netPositions[1]

\* C6: for exactly one Purchase order of amount A, with or without a bank
\* reference, net[Client] = A and net[Rolf] = -A, and no settlement for
\* the Bank is emitted.
C6_TwoParty ==
    (Done /\ OneOrder(Purchase))
        => LET A == F.fetched[1].Amount
           IN  /\ F.netPositions[0] = A
               /\ F.netPositions[1] = -A
               /\ AmountsOf(F.built) = <<A, -A>>
               /\ \A k \in 1 .. Len(F.built) : F.built[k].BankID = nil
               /\ \A k \in 1 .. Len(F.settlements) : F.settlements[k].BankID = nil

\* C6 happens: a single Purchase that itself carries a bank reference.
C6_Witness ==
    /\ Done /\ OneOrder(Purchase) /\ F.fetched[1].BankID # nil
    /\ F.n = 3 /\ Len(F.built) = 2

\* C7: for exactly one Trade-in order of amount A, net[Rolf] = A and
\* net[Client] = -A.
C7_TradeInReversal ==
    (Done /\ OneOrder(TradeIn))
        => /\ F.netPositions[1] = F.fetched[1].Amount
           /\ F.netPositions[0] = -F.fetched[1].Amount

\* C7 happens: a single Trade-in was netted.
C7_Witness ==
    /\ Done /\ OneOrder(TradeIn) /\ F.netPositions[1] > 0
    /\ AmountsOf(F.built) = <<-F.fetched[1].Amount, F.fetched[1].Amount>>

\* C8: when all net positions are zero, or the deal has no orders, the
\* call succeeds and returns an empty settlement sequence, not an error.
C8_ZeroNetEmpty ==
    /\ (Done /\ \A i \in 0 .. F.n - 1 : F.netPositions[i] = 0)
           => /\ F.err = nil
              /\ F.built = <<>> /\ F.settlements = <<>> /\ F.total = 0
              /\ call.svcErr = nil /\ call.resp.status = 200
    /\ (Fetched /\ F.fetched = <<>>)
           => /\ F.stage = "done" /\ F.err = nil
              /\ F.built = <<>> /\ F.settlements = <<>> /\ F.total = 0
              /\ call.svcErr = nil /\ call.resp.status = 200

\* C8 happens: a Purchase and a Trade-in of the same amount cancel out.
C8_Witness ==
    /\ Done /\ Len(F.fetched) = 2
    /\ {F.fetched[1].OrderTypeID, F.fetched[2].OrderTypeID} = {Purchase, TradeIn}
    /\ F.fetched[1].Amount = F.fetched[2].Amount
    /\ F.err = nil /\ F.settlements = <<>>

\* C9: for every fetched order sequence whose types are all known (zero
\* orders, one-sided obligations, Credit without a bank reference) the
\* calculation succeeds: no error, no index panic, a settlement sequence.
C9_OnlyUnknownTypeFails ==
    (Fetched /\ AllKnown)
        => /\ F.stage = "done"
           /\ F.err = nil
           /\ ~F.panic
           /\ call.resp.status # 500

\* C9 happens: version B netted a lone Credit order without a bank.
C9_Witness ==
    /\ Done /\ call.ver = "B" /\ OneOrder(Credit) /\ F.fetched[1].BankID = nil
    /\ F.err = nil /\ F.settlements = <<>>

\* C10: Client and Rolf always take part; the Bank takes part iff some
\* fetched order, of whatever type, has a bank reference; the matrix is
\* 3x3 exactly then and 2x2 otherwise.
C10_ParticipantSet ==
    Fetched =>
        LET anyBank == \E k \in 1 .. Len(F.fetched) : Len(F.fetched[k].BankID) = 1
        IN  /\ F.hasBank <=> anyBank
            /\ F.n = IF anyBank THEN 3 ELSE 2
            /\ DOMAIN F.obligations = 0 .. F.n - 1
            /\ \A i \in 0 .. F.n - 1 : DOMAIN F.obligations[i] = 0 .. F.n - 1
            /\ F.stage = "done" => DOMAIN F.netPositions = 0 .. F.n - 1

\* C10 happens: the only bank reference sits on a Purchase order.
C10_Witness ==
    /\ Fetched /\ F.n = 3
    /\ \A k \in 1 .. Len(F.fetched) :
           F.fetched[k].BankID # nil => F.fetched[k].OrderTypeID = Purchase

\* the Bank takes part and its net position is nonzero, so the last
\* settlement emitted is the Bank's
BankEmitted == Done /\ F.n = 3 /\ F.netPositions[2] # 0

\* C11: when a settlement for the Bank is emitted, its bank reference is the
\* one of the first fetched order that carries a bank reference, whatever
\* that order's type and whatever references later orders carry.
C11_FirstBankReference ==
    BankEmitted =>
        \E k \in 1 .. Len(F.fetched) :
            /\ F.fetched[k].BankID # nil
            /\ \A j \in 1 .. k - 1 : F.fetched[j].BankID = nil
            /\ F.built[Len(F.built)].BankID = F.fetched[k].BankID

\* C11 happens: two orders carry different bank references and the first
\* of them, a Purchase, supplies the reference of the Bank settlement.
C11_Witness ==
    /\ BankEmitted /\ Len(F.fetched) = 2
    /\ F.fetched[1].OrderTypeID = Purchase
    /\ F.fetched[1].BankID # nil /\ F.fetched[2].BankID # nil
    /\ F.fetched[1].BankID # F.fetched[2].BankID
    /\ F.built[Len(F.built)].BankID = F.fetched[1].BankID

\* C12: every emitted settlement carries the requested deal id, status
\* "pending" and settlement id 0; only the settlement of the Bank carries a
\* bank reference, those of Client and Rolf never do.
C12_SettlementFields ==
    Done =>
        /\ \A k \in 1 .. Len(F.built) :
               /\ F.built[k].DealID = Ptr(call.dealID)
               /\ F.built[k].Status = "pending"
               /\ F.built[k].MonetarySettlementID = 0
               /\ F.built[k].BankID # nil => (BankEmitted /\ k = Len(F.built))
        /\ \A k \in 1 .. Len(F.settlements) :
               \E l \in 1 .. Len(F.built) : F.settlements[k] = F.built[l]

\* C12 happens: three settlements are emitted in a deal with a bank; the
\* first two carry no bank reference, the third does.
C12_Witness ==
    /\ Done /\ Len(F.built) = 3 /\ Len(F.settlements) = 3
    /\ F.built[1].BankID = nil /\ F.built[2].BankID = nil
    /\ F.built[3].BankID # nil

\* C17 as stated: a failed fetch makes the call return the fetch's error
\* itself, unchanged.
C17_Original ==
    (Called /\ F.stage = "fetch") => F.err = QueryError

\* C17 amended: when fetching the deal's orders fails, the call fails with
\* the fetch failure wrapped once ("failed to list orders: %w"), the fetch's
\* error kept whole inside it, returns no settlements, and the fetch is
\* attempted exactly once.
C17_FetchFailure ==
    (Called /\ F.stage = "fetch")
        => /\ F.err = Errorf("failed to list orders", 0, QueryError)
           /\ ErrorsIs(F.err, DbError)
           /\ F.built = <<>> /\ F.settlements = <<>> /\ F.total = 0
           /\ F.fetches = 1
           /\ call.resp.status # 200

\* C17 happens: the fetch failed although the deal has orders.
C17_Witness ==
    /\ Called /\ F.stage = "fetch" /\ call.ver = "B"
    /\ ListOrdersByDeals(orders, call.dealID) # <<>>
    /\ F.err # nil

RECURSIVE RowSum(_, _, _)
\* what participant i owes the others: cells [i][0] .. [i][j]
RowSum(ob, i, j) == IF j < 0 THEN 0 ELSE ob[i][j] + RowSum(ob, i, j - 1)

RECURSIVE ColSum(_, _, _)
\* what the others owe participant i: cells [0][i] .. [j][i]
ColSum(ob, i, j) == IF j < 0 THEN 0 ELSE ob[j][i] + ColSum(ob, i, j - 1)

\* C19: for every participant i, net[i] is the sum of row i minus the sum
\* of column i of the obligation matrix, so a positive amount is owed by
\* the participant and a negative one is owed to it.
C19_NetFormula ==
    Done =>
        /\ \A i \in 0 .. F.n - 1 :
               F.netPositions[i] = RowSum(F.obligations, i, F.n - 1)
                                       - ColSum(F.obligations, i, F.n - 1)
        /\ \A k \in 1 .. Len(F.built) :
               \E i \in 0 .. F.n - 1 :
                   /\ F.built[k].Amount = F.netPositions[i]
                   /\ F.built[k].Amount > 0 =>
                          RowSum(F.obligations, i, F.n - 1)
                              > ColSum(F.obligations, i, F.n - 1)

\* C19 happens: a three-party matrix with cells in two rows and nonzero
\* positions for all three participants.
C19_Witness ==
    /\ Done /\ F.n = 3
    /\ F.obligations[0][1] > 0 /\ F.obligations[2][0] > 0
    /\ \A i \in 0 .. 2 : F.netPositions[i] # 0

MatrixOk(ob, n) ==
    \A i, j \in 0 .. n - 1 : ob[i][j] >= 0 /\ (i = j => ob[i][j] = 0)

\* C20: after accumulating any prefix of the fetched orders (amounts are
\* positive), every diagonal cell of the matrix is zero and every cell is
\* non-negative.
C20_MatrixInvariant ==
    Fetched =>
        /\ MatrixOk(F.obligations, F.n)
        /\ \A k \in 0 .. Len(F.fetched) :
               MatrixOk(BuildObligations(call.ver,
                                         [obligations |-> ZeroMatrix(F.n),
                                          err |-> nil, panic |-> FALSE],
                                         F.n, SubSeq(F.fetched, 1, k), 1).obligations,
                        F.n)

\* C20 happens: two orders were accumulated into a 3x3 matrix.
C20_Witness ==
    /\ Fetched /\ F.n = 3 /\ Len(F.fetched) = 2
    /\ \E i, j \in 0 .. 2 : F.obligations[i][j] > 1

\* every ordering of the sequence s
Orderings(s) ==
    {[k \in 1 .. Len(s) |-> s[f[k]]] :
        f \in {g \in [1 .. Len(s) -> 1 .. Len(s)] :
                  \A a, b \in 1 .. Len(s) : a # b => g[a] # g[b]}}

Answered(w) ==
    /\ workers[w].op = "netting" /\ workers[w].step = "responded"
    /\ workers[w].frame.stage \in {"matrix", "done"}
    /\ ~workers[w].dirty

\* a settlement without its timestamps
Untimed(st) ==
    [MonetarySettlementID |-> st.MonetarySettlementID, DealID |-> st.DealID,
     Amount |-> st.Amount, Status |-> st.Status, BankID |-> st.BankID]

NettingStep(w) ==
    /\ workers'[w].op = "netting"
    /\ workers'[w].step # workers[w].step

\* C15: a netting call, whether it succeeds or fails, inserts, updates or
\* deletes no deal, order or stored settlement, and leaves the order
\* records it read as they are in the table.
C15_NoSideEffects ==
    [][\A w \in Workers :
          NettingStep(w) =>
              /\ deals' = deals
              /\ orders' = orders
              /\ monetarySettlements' = monetarySettlements
              /\ workers[w].step = "fetched" =>
                     workers'[w].frame.fetched = workers[w].frame.fetched
              /\ workers'[w].step = "fetched" =>
                     \A k \in 1 .. Len(workers'[w].frame.fetched) :
                         \E l \in 1 .. Len(orders') :
                             orders'[l] = workers'[w].frame.fetched[k]]_vars

\* C15 happens: a netting call returned settlements while all three tables
\* hold rows.
C15_Witness ==
    /\ workers[1].op = "netting" /\ workers[1].step = "responded"
    /\ workers[1].frame.settlements # <<>>
    /\ deals # {} /\ orders # <<>> /\ monetarySettlements # <<>>

\* the rows of a deal, newest first
DealOrders(table, dealID) ==
    LET idx == {k \in 1 .. Len(table) : table[k].DealID = dealID}
        At(i) == CHOOSE k \in idx : Cardinality({l \in idx : l > k}) = i - 1
    IN  [i \in 1 .. Cardinality(idx) |-> table[At(i)]]

Share(ver, o, i, j) ==
    LET to == CASE o.OrderTypeID = Purchase -> {<<0, 1>>}
                [] o.OrderTypeID = TradeIn -> {<<1, 0>>}
                [] o.OrderTypeID = Credit /\ o.BankID # nil ->
                       IF ver = "A" THEN {<<0, 2>>, <<2, 1>>} ELSE {<<2, 0>>}
                [] o.OrderTypeID = Credit /\ o.BankID = nil ->
                       IF ver = "A" THEN {<<0, 1>>} ELSE {}
                [] OTHER -> {}
    IN  IF <<i, j>> \in to THEN o.Amount ELSE 0

RECURSIVE CellSum(_, _, _, _, _)
\* what the first k orders add to cell [i][j]
CellSum(ver, os, i, j, k) ==
    IF k = 0 THEN 0 ELSE Share(ver, os[k], i, j) + CellSum(ver, os, i, j, k - 1)

CreditAt(k, withBank) ==
    /\ F.fetched[k].OrderTypeID = Credit
    /\ (F.fetched[k].BankID # nil) <=> withBank

\* C21: in version A every cell is the sum of what the orders add, where a
\* Credit order with a bank reference adds its amount to Client->Bank and
\* Bank->Rolf and to no other cell, and a Credit order without one adds its
\* amount to Client->Rolf only; replacing such an order by a Purchase of the
\* same amount leaves the net positions and settlements as they are.
C21_CreditPolicyA ==
    (Done /\ call.ver = "A") =>
        /\ \A i, j \in 0 .. F.n - 1 :
               F.obligations[i][j] = CellSum("A", F.fetched, i, j, Len(F.fetched))
        /\ \A k \in 1 .. Len(F.fetched) :
               CreditAt(k, FALSE) =>
                   LET g == Calculate("A", call.dealID,
                                      [F.fetched EXCEPT ![k].OrderTypeID = Purchase])
                   IN  g.netPositions = F.netPositions /\ g.built = F.built

\* C21 happens: version A calculated a Credit with a bank reference and a
\* Credit without one.
C21_Witness ==
    /\ Done /\ call.ver = "A" /\ Len(F.fetched) = 2
    /\ CreditAt(1, TRUE) /\ CreditAt(2, FALSE)
    /\ F.obligations[0][2] > 0 /\ F.obligations[2][1] > 0 /\ F.obligations[0][1] > 0
    /\ F.obligations[2][0] = 0 /\ F.obligations[1][0] = 0 /\ F.obligations[1][2] = 0

\* C22: in version B every cell is the sum of what the orders add, where a
\* Credit order with a bank reference adds its amount to Bank->Client only
\* and one without adds nothing and raises no error.  A single Credit of
\* amount A with a bank reference gives net[Client] = -A, net[Rolf] = 0,
\* net[Bank] = A and two settlements, the Client's then the Bank's.
C22_CreditPolicyB ==
    (Fetched /\ call.ver = "B") =>
        /\ F.stage = "done" =>
               \A i, j \in 0 .. F.n - 1 :
                   F.obligations[i][j] = CellSum("B", F.fetched, i, j, Len(F.fetched))
        /\ (\A k \in 1 .. Len(F.fetched) : CreditAt(k, FALSE)) =>
               /\ F.stage = "done" /\ F.err = nil /\ call.resp.status = 200
               /\ F.obligations = ZeroMatrix(2) /\ F.built = <<>>
        /\ (Len(F.fetched) = 1 /\ CreditAt(1, TRUE)) =>
               LET A == F.fetched[1].Amount
               IN  /\ F.stage = "done" /\ F.n = 3
                   /\ F.netPositions[0] = -A /\ F.netPositions[1] = 0
                   /\ F.netPositions[2] = A
                   /\ AmountsOf(F.built) = <<-A, A>>
                   /\ F.built[1].BankID = nil
                   /\ F.built[2].BankID = F.fetched[1].BankID

\* C22 happens: version B calculated a single Credit of amount 2 with a
\* bank reference.
C22_Witness ==
    /\ Done /\ call.ver = "B" /\ Len(F.fetched) = 1 /\ CreditAt(1, TRUE)
    /\ F.fetched[1].Amount = 2 /\ Len(F.built) = 2

(***************************************************************************)
(* Request validation, index safety and the agreement of the two versions. *)
(***************************************************************************)
\* C26: a request with deal_id <= 0, in both versions, and in version A a
\* request with page < 1 or limit < 1, ends with an error that is the
\* version's ErrInvalidInput, and the orders were not queried.
C26_ValidationFirst ==
    (/\ Called
     /\ \/ call.dealID <= 0
        \/ call.ver = "A" /\ (call.page < 1 \/ call.limit < 1))
    => /\ F.err # nil /\ ErrorsIs(F.err, OwnInvalidInput)
       /\ F.fetches = 0 /\ F.stage = "validate" /\ F.fetched = <<>>

\* C26 happens: version A rejected page 0 for a deal that has orders.
C26_Witness ==
    /\ Called /\ call.ver = "A" /\ call.dealID = 1 /\ call.page = 0 /\ call.limit = 3
    /\ orders # <<>> /\ F.fetches = 0 /\ F.err # nil

\* C27: no calculation indexes outside its matrix: none panics, matrix and
\* net positions are indexed by the 0 .. N-1 of the participants, and N is 3
\* exactly when some order carries a bank reference.
C27_IndexSafety ==
    Called =>
        /\ ~F.panic
        /\ call.resp # Recovery
        /\ Fetched =>
               /\ F.n = (IF HasBank(F.fetched) THEN 3 ELSE 2)
               /\ DOMAIN F.obligations = 0 .. F.n - 1
               /\ \A i \in 0 .. F.n - 1 : DOMAIN F.obligations[i] = 0 .. F.n - 1
               /\ F.stage = "done" => DOMAIN F.netPositions = 0 .. F.n - 1

\* C27 happens: both cells of the Bank that version A writes were written.
C27_Witness ==
    /\ Done /\ call.ver = "A" /\ F.n = 3 /\ ~F.panic
    /\ F.obligations[0][2] = 2 /\ F.obligations[2][1] = 2

NoCredit == \A k \in 1 .. Len(F.fetched) : F.fetched[k].OrderTypeID # Credit
SameSettlements(s, t) ==
    /\ Len(s) = Len(t)
    /\ \A k \in 1 .. Len(s) : s[k].Amount = t[k].Amount /\ s[k].BankID = t[k].BankID

\* C28 as stated: for orders without a Credit, version A asked for page 1
\* with limit >= 3 and version B return the same error, or settlements equal
\* in length, amounts and bank references.
C28_Original ==
    (Fetched /\ call.ver = "A" /\ call.page = 1 /\ call.limit >= 3 /\ NoCredit)
    => LET g == SvcListMonetarySettlements(orders, call.dealID, FALSE)
       IN  /\ F.err = g.err
           /\ F.err = nil => SameSettlements(F.settlements, g.settlements)

(***************************************************************************)
(* The transaction of DeleteDeal.                                          *)
(***************************************************************************)
\* C23 as stated: every DeleteDeal that began a transaction has committed
\* it or rolled it back when it returns, also when its final DELETE affects
\* no row because another DeleteDeal removed the deal first.
C23_Original ==
    \A w \in Workers :
        (workers[w].op = "delete" /\ workers[w].step = "responded") =>
            workers[w].tx \in {"none", "committed", "rolledback"}

\* C29: a netting request for a positive deal id that is not in deals,
\* because the deal was deleted or because it was never created, is answered
\* 200 with an empty settlement sequence and not with a not-found error,
\* unless the query of the orders failed.
C29_NoDealCheck ==
    \A w \in Workers :
        (/\ workers[w].op = "netting" /\ workers[w].step = "responded"
         /\ workers[w].dealID > 0 /\ workers[w].dealID \notin deals
         /\ ~workers[w].dirty
         /\ ~ErrorsIs(workers[w].err, DbError))
        => /\ workers[w].resp.status = 200
           /\ workers[w].err = nil
           /\ workers[w].frame.stage = "done"
           /\ workers[w].frame.fetched = <<>>
           /\ workers[w].frame.settlements = <<>>

\* C29 happens: worker 2 deleted deal 1 and, with its answer still held,
\* worker 1 was answered 200 with no settlement for deal 1.
C29_Witness ==
    /\ workers[2].op = "delete" /\ workers[2].step = "responded"
    /\ workers[2].resp.status = 200 /\ workers[2].tx = "committed"
    /\ workers[2].dealID = 1 /\ 1 \notin deals
    /\ workers[1].op = "netting" /\ workers[1].step = "responded"
    /\ workers[1].dealID = 1 /\ ~workers[1].dirty
    /\ workers[1].resp.status = 200 /\ workers[1].frame.settlements = <<>>

(***************************************************************************)
(* Orders stored through the service.                                      *)
(***************************************************************************)
\* the request fails validation or names a deal that is not there
Rejected(r) ==
    \/ r.Amount <= 0 \/ r.DealID <= 0 \/ r.OrderTypeID <= 0
    \/ r.BankID # nil /\ r.BankID[1] <= 0
    \/ r.DealID \notin deals

\* the position of the first such request of a batch, or one past its end
FirstRejected(req) ==
    CHOOSE f \in 1 .. Len(req) + 1 :
        /\ f <= Len(req) => Rejected(req[f])
        /\ \A k \in 1 .. f - 1 : ~Rejected(req[k])

\* C24 as stated: after any sequence of successful CreateOrders and
\* UpdateOrder calls, netting never fails with the InvalidInput of an
\* unknown order type.
C24_Original ==
    Called => ~(F.stage = "matrix" /\ F.err # nil /\ ErrorsIs(F.err, OwnInvalidInput))

\* C25: CreateOrders stores the requests of a batch in their order as
\* pending orders, up to the first request that fails validation, names a
\* deal that is not there or fails to insert; it then returns an error and
\* no order list, the orders stored before stay and none is stored after.
\* Without such a request it returns the orders stored, all of the batch.
C25_CreateOrders ==
    [][(pc = "idle" /\ pc' = "responded" /\ call'.ver = "CreateOrders") =>
          LET req == call'.req
              n == Len(orders') - Len(orders)
              e == call'.svcErr
          IN  /\ n \in 0 .. Len(req)
              /\ SubSeq(orders', 1, Len(orders)) = orders
              /\ n < FirstRejected(req)
              /\ \A k \in 1 .. n :
                     LET row == orders'[Len(orders) + k]
                     IN  /\ row.DealID = req[k].DealID
                         /\ row.OrderTypeID = req[k].OrderTypeID
                         /\ row.Amount = req[k].Amount
                         /\ row.BankID = req[k].BankID
                         /\ row.Status = StatusPending
                         /\ \A l \in 1 .. Len(orders) + k - 1 :
                                orders'[l].OrderID # row.OrderID
              /\ e = nil => /\ n = Len(req)
                            /\ call'.result = SubSeq(orders', Len(orders) + 1, Len(orders'))
              /\ e # nil => /\ call'.result = nil
                            /\ call'.clientID > 0 => n < Len(req)
              /\ (e # nil /\ call'.clientID > 0 /\ ~ErrorsIs(e, DbError)) =>
                     /\ n = FirstRejected(req) - 1
                     /\ \/ ErrorsIs(e, SvcErrInvalidInput)
                        \/ ErrorsIs(e, SvcErrNotFound) /\ req[n + 1].DealID \notin deals
          ]_vars

\* C25 happens: of a batch of two the first order was stored and the second
\* request was rejected.
C25_Witness ==
    /\ pc = "responded" /\ call.ver = "CreateOrders"
    /\ Len(call.req) = 2 /\ Rejected(call.req[2])
    /\ call.svcErr # nil /\ call.result = nil
    /\ Len(orders) = 1 /\ orders[1].Status = StatusPending
    /\ orders[1].OrderTypeID = call.req[1].OrderTypeID

(***************************************************************************)
(* The fields the calculation does not read.                               *)
(***************************************************************************)
\* the table with status, order_id and need_and_orders_id of row k changed,
\* of every row when k = 0 (the rows of the model leave need_and_orders_id
\* out; here it is set)
Vary(table, k, status) ==
    [i \in 1 .. Len(table) |->
        IF k = 0 \/ i = k
        THEN [NeedAndOrdersID |-> Ptr(i)]
             @@ [table[i] EXCEPT !.Status = status, !.OrderID = @ + Len(table)]
        ELSE table[i]]

\* the request of the call, served over another table
Again(table) ==
    IF call.ver = "A"
    THEN RepoListMonetarySettlements(table, call.dealID, call.page, call.limit, FALSE)
    ELSE SvcListMonetarySettlements(table, call.dealID, FALSE)

\* C30: the orders of a table whose rows differ from those of the request
\* in status, order id and need_and_orders_id only, with type, amount and
\* bank reference of each order the same, give the same error or the same
\* matrix, net positions and settlements.
C30_IgnoredFields ==
    Fetched =>
        \A k \in 0 .. Len(orders), status \in Statuses :
            LET g == Again(Vary(orders, k, status))
            IN  /\ g.err = F.err
                /\ g.n = F.n
                /\ g.obligations = F.obligations
                /\ g.netPositions = F.netPositions
                /\ g.settlements = F.settlements
                /\ g.total = F.total

\* C30 happens: settlements were returned for two orders, and the table in
\* which the second is cancelled under another id gives the same.
C30_Witness ==
    /\ Done /\ Len(F.fetched) = 2 /\ Len(F.settlements) = 2
    /\ Vary(orders, 2, StatusCancelled)[2].Status # orders[2].Status
    /\ Vary(orders, 2, StatusCancelled)[2].OrderID # orders[2].OrderID
    /\ Again(Vary(orders, 2, StatusCancelled)).settlements = F.settlements

====
